---- MODULE Spec2Model ----
(***************************************************************************)
(* starlink_visible.py: list the passes of the satellites of a TLE catalog *)
(* over a site and a time window, ranked by peak elevation.                *)
(*                                                                         *)
(* Times are whole seconds (datetime/timedelta arithmetic is exact),       *)
(* elevations and azimuths are whole degrees.  A text line is a sequence   *)
(* of one-character strings.  The propagator (skyfield) is the             *)
(* environment: each (satellite, instant) evaluation yields an altitude    *)
(* and an azimuth, or NaN when SGP4 reports an error.                      *)
(***************************************************************************)
EXTENDS Integers, Sequences, FiniteSets, TLC

VARIABLES
    pc,        \* position of the run
    tle_file,  \* raw lines of the file named by --tle-file
    start,     \* window start (main's local)
    end,       \* window end (main's local)
    min_el,    \* args.min_el
    step_s,    \* args.step_s
    site,      \* where lat/lon/alt came from: "dish" or "args"
    sats,      \* visible_list's sats, in catalog order
    t,         \* frange's t
    sky,       \* what the propagator returned, one entry per instant yielded
    visible,   \* visible_list's dict, in insertion order
    rows,      \* what visible_list returned
    out        \* the lines main printed

vars == <<pc, tle_file, start, end, min_el, step_s, site, sats, t, sky, visible, rows, out>>

----------------------------------------------------------------------------
(* Values *)

None == [some |-> FALSE, val |-> 0]
Some(v) == [some |-> TRUE, val |-> v]

NaN == [nan |-> TRUE, deg |-> 0]
Deg(d) == [nan |-> FALSE, deg |-> d]

\* x >= m on floats: false whenever x is NaN
GE(x, m) == ~x.nan /\ x.deg >= m

Range(s) == {s[k] : k \in 1..Len(s)}

SetMax(S) == CHOOSE x \in S : \A y \in S : y <= x

Max2(a, b) == IF a >= b THEN a ELSE b

\* a tolerance of two minutes instead of three
GapToleranceShort == 2 * 60

\* the 180 of visible_list's gap test
GapTolerance == 180

\* main's initial max_el
PeakInit == -1

----------------------------------------------------------------------------
(* load_tles *)

IsSpace(c) == c = " "

RECURSIVE lstrip(_)
lstrip(ln) ==
    IF ln # <<>> /\ IsSpace(Head(ln)) THEN lstrip(Tail(ln)) ELSE ln

RECURSIVE rstrip(_)
rstrip(ln) ==
    IF ln # <<>> /\ IsSpace(ln[Len(ln)]) THEN rstrip(SubSeq(ln, 1, Len(ln) - 1)) ELSE ln

strip(ln) == rstrip(lstrip(ln))

startswith(ln, prefix) ==
    Len(ln) >= Len(prefix) /\ SubSeq(ln, 1, Len(prefix)) = prefix

\* lines = [ln.strip() for ln in f if ln.strip()]
RECURSIVE read_lines(_)
read_lines(f) ==
    IF f = <<>> THEN <<>>
    ELSE IF strip(Head(f)) # <<>> THEN <<strip(Head(f))>> \o read_lines(Tail(f))
         ELSE read_lines(Tail(f))

\* EarthSatellite(l1, l2, name, TS): an opaque record of the three lines
EarthSatellite(l1, l2, name) == [name |-> name, line1 |-> l1, line2 |-> l2]

\* only the first element line is tested
IsTriple_line1_only(lines, i) ==
    startswith(lines[i + 1], <<"1", " ">>)

IsTriple(lines, i) ==
    startswith(lines[i + 1], <<"1", " ">>) /\ startswith(lines[i + 2], <<"2", " ">>)

\* the while loop of load_tles, from index i (1-based) with sats collected so far
RECURSIVE scan(_, _, _)
scan(lines, i, acc) ==
    IF i + 2 <= Len(lines)
    THEN IF IsTriple(lines, i)
         THEN scan(lines, i + 3, Append(acc, EarthSatellite(lines[i + 1], lines[i + 2], lines[i])))
         ELSE scan(lines, i + 1, acc)
    ELSE acc

load_tles(f) == scan(read_lines(f), 1, <<>>)

----------------------------------------------------------------------------
(* parse_iso_z *)

UtcOffset(tz) == IF tz = "+01:00" THEN 3600 ELSE 0

\* a trailing Z is rewritten to +00:00; the aware datetime is converted to UTC
parse_iso_z(s) ==
    LET s2 == IF s.tz = "Z" THEN [s EXCEPT !.tz = "+00:00"] ELSE s
    IN  s2.wall - UtcOffset(s2.tz)

----------------------------------------------------------------------------
(* frange *)

\* a half-open window: t < t1
frange_continues_strict(tt, t1) == tt < t1

\* the condition of frange's while loop
frange_continues(tt, t1) == tt <= t1

\* t += timedelta(seconds=step_s)
frange_advance(tt, step) == tt + step

----------------------------------------------------------------------------
(* visible_list *)

HasKey(vis, sat) == \E j \in 1..Len(vis) : vis[j].sat = sat

\* visible.setdefault(sat, []).append(s)
setdefault_append(vis, sat, s) ==
    IF HasKey(vis, sat)
    THEN [j \in 1..Len(vis) |->
            IF vis[j].sat = sat THEN [vis[j] EXCEPT !.samples = Append(@, s)] ELSE vis[j]]
    ELSE Append(vis, [sat |-> sat, samples |-> <<s>>])

\* not (alt_deg.degrees < min_el), which is true of NaN
retained_not_below(alt, m) == ~(~alt.nan /\ alt.deg < m)

\* alt_deg.degrees >= min_el
retained(alt, m) == GE(alt, m)

\* the inner loop over sats at one instant dt; obs[k] is what altaz() gave for sats[k]
RECURSIVE sample_instant(_, _, _, _, _, _)
sample_instant(vis, k, n, dt, obs, m) ==
    IF k > n THEN vis
    ELSE sample_instant(
             IF retained(obs[k].alt, m)
             THEN setdefault_append(vis, k, <<dt, obs[k].alt.deg, obs[k].az % 360>>)
             ELSE vis,
             k + 1, n, dt, obs, m)

\* samples.sort(key=lambda x: x[0]): ascending by time, stable
sort_samples(samples) ==
    LET n == Len(samples)
        rank(i) == Cardinality({j \in 1..n :
                        \/ samples[j][1] < samples[i][1]
                        \/ samples[j][1] = samples[i][1] /\ j < i}) + 1
    IN  [p \in 1..n |-> samples[CHOOSE i \in 1..n : rank(i) = p]]

\* >= 180 instead of > 180
gap_exceeded_ge(prev, s) == prev.some /\ s[1] - prev.val[1] >= GapTolerance

\* prev and (s[0] - prev[0]).total_seconds() > 180
gap_exceeded(prev, s) == prev.some /\ s[1] - prev.val[1] > GapTolerance

\* the loop without the flush of the last chunk after it
RECURSIVE walk_no_flush(_, _, _, _, _)
walk_no_flush(samples, j, chunk, prev, acc) ==
    IF j > Len(samples)
    THEN acc
    ELSE LET s == samples[j]
             cut == gap_exceeded(prev, s)
             acc2 == IF cut /\ chunk # <<>> THEN Append(acc, chunk) ELSE acc
             chunk2 == IF cut THEN <<>> ELSE chunk
         IN  walk_no_flush(samples, j + 1, Append(chunk2, s), Some(s), acc2)

\* the loop over one satellite's samples, from index j; acc collects the chunks
RECURSIVE walk(_, _, _, _, _)
walk(samples, j, chunk, prev, acc) ==
    IF j > Len(samples)
    THEN IF chunk # <<>> THEN Append(acc, chunk) ELSE acc
    ELSE LET s == samples[j]
             cut == gap_exceeded(prev, s)
             acc2 == IF cut /\ chunk # <<>> THEN Append(acc, chunk) ELSE acc
             chunk2 == IF cut THEN <<>> ELSE chunk
         IN  walk(samples, j + 1, Append(chunk2, s), Some(s), acc2)

\* the chunks of one satellite's samples
segment(samples) == walk(sort_samples(samples), 1, <<>>, None, <<>>)

\* the loop over visible.items(): rows before the final sort
RECURSIVE collect(_, _)
collect(vis, j) ==
    IF j > Len(vis) THEN <<>>
    ELSE LET chunks == segment(vis[j].samples)
         IN  [c \in 1..Len(chunks) |-> [sat |-> vis[j].sat, chunk |-> chunks[c]]]
             \o collect(vis, j + 1)

\* max(el for _, el, _ in r[1])
peak(r) == SetMax({r.chunk[k][2] : k \in 1..Len(r.chunk)})

\* an ascending sort reversed: descending, but equal keys in reverse order
sort_rows_ties_reversed(rs) ==
    LET n == Len(rs)
        rank(i) == Cardinality({j \in 1..n :
                        \/ peak(rs[j]) > peak(rs[i])
                        \/ peak(rs[j]) = peak(rs[i]) /\ j > i}) + 1
    IN  [p \in 1..n |-> rs[CHOOSE i \in 1..n : rank(i) = p]]

\* rows.sort(key=peak, reverse=True): descending by key, stable
sort_rows(rs) ==
    LET n == Len(rs)
        rank(i) == Cardinality({j \in 1..n :
                        \/ peak(rs[j]) > peak(rs[i])
                        \/ peak(rs[j]) = peak(rs[i]) /\ j < i}) + 1
    IN  [p \in 1..n |-> rs[CHOOSE i \in 1..n : rank(i) = p]]

----------------------------------------------------------------------------
(* main's print loop *)

\* for dt, el, az in chunk: if el > max_el: max_el, t_peak, az_at_peak = el, dt, az
RECURSIVE find_peak(_, _, _)
find_peak(chunk, k, best) ==
    IF k > Len(chunk) THEN best
    ELSE find_peak(chunk, k + 1,
             IF chunk[k][2] > best.max_el
             THEN [max_el |-> chunk[k][2], t_peak |-> Some(chunk[k][1]),
                   az_at_peak |-> Some(chunk[k][3])]
             ELSE best)

\* the line printed for one row, before formatting
report_line(r) ==
    LET b == find_peak(r.chunk, 1, [max_el |-> PeakInit, t_peak |-> None, az_at_peak |-> None])
    IN  [sat |-> r.sat, t0 |-> r.chunk[1][1], t1 |-> r.chunk[Len(r.chunk)][1],
         max_el |-> b.max_el, t_peak |-> b.t_peak, az_at_peak |-> b.az_at_peak]

----------------------------------------------------------------------------
(* The run *)

Init ==
    /\ pc = "main"
    /\ tle_file = <<>>
    /\ start = 0
    /\ end = 0
    /\ min_el = 0
    /\ step_s = 0
    /\ site = "none"
    /\ sats = <<>>
    /\ t = 0
    /\ sky = <<>>
    /\ visible = <<>>
    /\ rows = <<>>
    /\ out = <<>>

\* main, lines 127-157: the window, the location, up to the call of visible_list.
\* a is the parsed command line, clock is datetime.now, dish_ok whether
\* fetch_location_from_dish returned.
Main(Argv, Clocks) ==
    /\ pc = "main"
    /\ \E a \in Argv, clock \in Clocks, dish_ok \in BOOLEAN :
         LET window_ok == a.now \/ (a.start.some /\ a.end.some)
             half == Max2(1, a.duration_min) * 30
             s == IF a.now THEN clock - half ELSE parse_iso_z(a.start.val)
             e == IF a.now THEN clock + half ELSE parse_iso_z(a.end.val)
             from_dish == a.from_dish /\ dish_ok
             loc_ok == from_dish \/ a.latlon
         IN  IF window_ok /\ loc_ok
             THEN /\ pc' = "visible_list"
                  /\ start' = s
                  /\ end' = e
                  /\ site' = IF from_dish THEN "dish" ELSE "args"
                  /\ tle_file' = a.tle_file
                  /\ min_el' = a.min_el
                  /\ step_s' = a.step_s
             ELSE /\ pc' = "usage_error"
                  /\ start' = IF window_ok THEN s ELSE start
                  /\ end' = IF window_ok THEN e ELSE end
                  /\ UNCHANGED <<site, tle_file, min_el, step_s>>
    /\ UNCHANGED <<sats, t, sky, visible, rows, out>>

\* visible_list, lines 86-91: load the catalog; an empty catalog returns []
\* and main reports no results
VisibleListLoad ==
    /\ pc = "visible_list"
    /\ sats' = load_tles(tle_file)
    /\ IF sats' = <<>>
       THEN /\ pc' = "no_results"
            /\ UNCHANGED t
       ELSE /\ pc' = "frange"
            /\ t' = start
    /\ UNCHANGED <<tle_file, start, end, min_el, step_s, site, sky, visible, rows, out>>

\* one iteration of the loop over frange, lines 92-98: every satellite is
\* evaluated at t; maxN caps the instants of a run explored
SampleStep(Alts, Azs, maxN) ==
    /\ pc = "frange"
    /\ frange_continues(t, end)
    /\ Len(sky) < maxN
    /\ \E obs \in [1..Len(sats) -> [alt : Alts, az : Azs]] :
         /\ visible' = sample_instant(visible, 1, Len(sats), t, obs, min_el)
         /\ sky' = Append(sky, [dt |-> t, alt |-> [k \in 1..Len(sats) |-> obs[k].alt]])
    /\ t' = frange_advance(t, step_s)
    /\ UNCHANGED <<pc, tle_file, start, end, min_el, step_s, site, sats, rows, out>>

\* frange is exhausted: lines 99-112 segment and rank, then main, lines 158-160
VisibleListReturn ==
    /\ pc = "frange"
    /\ ~frange_continues(t, end)
    /\ rows' = sort_rows(collect(visible, 1))
    /\ pc' = IF rows' = <<>> THEN "no_results" ELSE "print"
    /\ UNCHANGED <<tle_file, start, end, min_el, step_s, site, sats, t, sky, visible, out>>

\* one iteration of main's print loop, lines 163-171; formatting a t_peak of
\* None raises TypeError
PrintRow ==
    /\ pc = "print"
    /\ Len(out) < Len(rows)
    /\ LET ln == report_line(rows[Len(out) + 1])
       IN  IF ln.t_peak.some
           THEN /\ out' = Append(out, ln)
                /\ pc' = IF Len(out') = Len(rows) THEN "done" ELSE "print"
           ELSE /\ pc' = "TypeError"
                /\ UNCHANGED out
    /\ UNCHANGED <<tle_file, start, end, min_el, step_s, site, sats, t, sky, visible, rows>>

----------------------------------------------------------------------------
(* Inputs explored *)

\* most instants frange yields in a run explored under Spec and SpecPeak
MaxInstants == 3

\* most instants frange yields in a run explored under SpecSeg
MaxSegInstants == 5

\* most raw lines of a TLE file explored under SpecTle
MaxLines == 7

\* the defaults of --step-s, --min-el and --duration-min
DefaultStep == 30
DefaultMinEl == 10
DefaultDuration == 15

T(w, tz) == [wall |-> w, tz |-> tz]

Args(now, dur, s, e, latlon, dish, file, minel, step) ==
    [now |-> now, duration_min |-> dur, start |-> s, end |-> e, latlon |-> latlon,
     from_dish |-> dish, tle_file |-> file, min_el |-> minel, step_s |-> step]

\* raw lines of a TLE file
LineName == <<"x">>
Line1 == <<"1", " ", "x">>
Line2 == <<" ", "2", " ", "x", " ">>
LineBlank == <<" ">>
LineOne == <<"1", " ">>
RawLines == {LineName, Line1, Line2, LineBlank, LineOne}

CatalogNone == <<LineName, LineBlank, Line1>>
CatalogOne == <<LineName, Line1, Line2>>
CatalogTwo == <<LineName, Line1, Line2, LineBlank, LineOne, Line1, Line2>>
Catalogs == {CatalogNone, CatalogOne, CatalogTwo}

\* <<step, end>> of windows starting at 0: n instants for n up to MaxInstants,
\* end on the sampling grid
Windows == {<<180, (n - 1) * 180>> : n \in 1..MaxInstants}

\* end off the sampling grid; start > end; a step that is not positive
OddWindows ==
    {<<180, (MaxInstants - 1) * 180 + 20>>, <<180, 0 - 60>>, <<0, 180>>, <<0 - 30, 180>>}

ArgvWindows ==
    {Args(FALSE, DefaultDuration, Some(T(0, "Z")), Some(T(w[2], "Z")), TRUE, FALSE,
          f, DefaultMinEl, w[1]) : w \in Windows, f \in Catalogs}
    \cup {Args(FALSE, DefaultDuration, Some(T(0, "Z")), Some(T(w[2], "Z")), TRUE, FALSE,
               CatalogOne, DefaultMinEl, w[1]) : w \in OddWindows}

\* --now or --start/--end, with and without a location
ArgvModes ==
    {Args(now, d, s, e, latlon, dish, CatalogOne, DefaultMinEl, DefaultStep) :
        now \in BOOLEAN, d \in {0, 1},
        s \in {None, Some(T(3600, "+01:00"))}, e \in {None, Some(T(60, "Z"))},
        latlon \in BOOLEAN, dish \in BOOLEAN}

Argv == ArgvWindows \cup ArgvModes

Alts == {NaN, Deg(5), Deg(10), Deg(45)}
Azs == {90}

Next ==
    \/ Main(Argv, {0})
    \/ VisibleListLoad
    \/ SampleStep(Alts, Azs, MaxInstants)
    \/ VisibleListReturn
    \/ PrintRow

Spec == Init /\ [][Next]_vars

----------------------------------------------------------------------------
(* Segmentation: two satellites, seen or not, over longer windows *)

ArgvSeg ==
    {Args(FALSE, DefaultDuration, Some(T(0, "Z")), Some(T((n - 1) * st, "Z")), TRUE, FALSE,
          CatalogTwo, DefaultMinEl, st) : st \in {90, 180, 200}, n \in 1..MaxSegInstants}

AltsSeg == {Deg(5), Deg(10)}

NextSeg ==
    \/ Main(ArgvSeg, {0})
    \/ VisibleListLoad
    \/ SampleStep(AltsSeg, Azs, MaxSegInstants)
    \/ VisibleListReturn
    \/ PrintRow

SpecSeg == Init /\ [][NextSeg]_vars

----------------------------------------------------------------------------
(* load_tles alone, over every file of up to MaxLines raw lines *)

Files(n) == UNION {[1..k -> RawLines] : k \in 0..n}

ArgvTle(n) ==
    {Args(TRUE, 1, None, None, TRUE, FALSE, f, DefaultMinEl, DefaultStep) : f \in Files(n)}

NextTle ==
    \/ Main(ArgvTle(MaxLines), {0})
    \/ VisibleListLoad

SpecTle == Init /\ [][NextTle]_vars

----------------------------------------------------------------------------
(* The print loop, with thresholds and elevations below zero *)

ArgvPeak ==
    {Args(FALSE, DefaultDuration, Some(T(0, "Z")), Some(T((n - 1) * st, "Z")), TRUE, FALSE,
          CatalogOne, m, st) : st \in {180, 200}, n \in 1..MaxInstants, m \in {0 - 5, DefaultMinEl}}

AltsPeak == {Deg(0 - 3), Deg(0 - 1), Deg(5), Deg(20)}
AzsPeak == {90, 360}

NextPeak ==
    \/ Main(ArgvPeak, {0})
    \/ VisibleListLoad
    \/ SampleStep(AltsPeak, AzsPeak, MaxInstants)
    \/ VisibleListReturn
    \/ PrintRow

SpecPeak == Init /\ [][NextPeak]_vars

----------------------------------------------------------------------------
(* One satellite over a seven-minute window at the default step *)

GapEnd == 7 * 60

ArgvGap ==
    {Args(FALSE, DefaultDuration, Some(T(0, "Z")), Some(T(GapEnd, "Z")), TRUE, FALSE,
          CatalogOne, DefaultMinEl, DefaultStep)}

AltsGap == {Deg(5), Deg(10)}

NextGap ==
    \/ Main(ArgvGap, {0})
    \/ VisibleListLoad
    \/ SampleStep(AltsGap, Azs, (GapEnd \div DefaultStep) + 1)
    \/ VisibleListReturn
    \/ PrintRow

SpecGap == Init /\ [][NextGap]_vars

----------------------------------------------------------------------------
(* Properties *)

\* visible_list ran its sampling loop to the end and returned
Returned ==
    \/ pc \in {"print", "done", "TypeError"}
    \/ pc = "no_results" /\ sats # <<>>

\* the retained samples of satellite k, as visible holds them
SamplesOf(k) ==
    IF HasKey(visible, k)
    THEN visible[CHOOSE j \in 1..Len(visible) : visible[j].sat = k].samples
    ELSE <<>>

RowsOf(k) == {i \in 1..Len(rows) : rows[i].sat = k}

FirstTime(c) == c[1][1]
LastTime(c) == c[Len(c)][1]
Times(c) == {c[j][1] : j \in 1..Len(c)}

\* C1: the passes of a satellite partition its retained samples: every
\* retained sample lies in exactly one pass, a pass holds only retained
\* samples, and two passes of one satellite do not overlap and lie more than
\* 180 seconds apart.
C1_PassesPartition ==
    Returned =>
        /\ \A i \in 1..Len(rows) :
              /\ rows[i].sat \in 1..Len(sats)
              /\ Range(rows[i].chunk) \subseteq Range(SamplesOf(rows[i].sat))
        /\ \A k \in 1..Len(sats) : \A s \in Range(SamplesOf(k)) :
              Cardinality({i \in RowsOf(k) : s \in Range(rows[i].chunk)}) = 1
        /\ \A i, j \in 1..Len(rows) :
              (i # j /\ rows[i].sat = rows[j].sat) =>
                  \/ FirstTime(rows[j].chunk) - LastTime(rows[i].chunk) > 180
                  \/ FirstTime(rows[i].chunk) - LastTime(rows[j].chunk) > 180

\* a satellite with two passes, one of them of several samples
C1_Witness ==
    /\ Returned
    /\ \E i, j \in 1..Len(rows) :
          /\ i # j
          /\ rows[i].sat = rows[j].sat
          /\ Len(rows[i].chunk) >= 2

\* C2: a pass has at least one sample, its samples are strictly increasing
\* in time and at most 180 seconds apart; two consecutive retained samples of
\* a satellite share a pass exactly when they are at most 180 seconds apart.
C2_PassShape ==
    Returned =>
        /\ \A i \in 1..Len(rows) :
              LET c == rows[i].chunk
              IN  /\ Len(c) >= 1
                  /\ \A j \in 1..(Len(c) - 1) :
                        /\ c[j][1] < c[j + 1][1]
                        /\ c[j + 1][1] - c[j][1] <= 180
        /\ \A k \in 1..Len(sats) :
              LET smp == SamplesOf(k)
              IN  \A j \in 1..(Len(smp) - 1) :
                      (\E i \in RowsOf(k) : {smp[j], smp[j + 1]} \subseteq Range(rows[i].chunk))
                          <=> (smp[j + 1][1] - smp[j][1] <= 180)

\* a pass with two samples exactly 180 seconds apart, and a satellite split
\* into two passes
C2_Witness ==
    /\ Returned
    /\ \E i \in 1..Len(rows) : \E j \in 1..(Len(rows[i].chunk) - 1) :
          rows[i].chunk[j + 1][1] - rows[i].chunk[j][1] = 180
    /\ \E i, j \in 1..Len(rows) : i # j /\ rows[i].sat = rows[j].sat

PeakOf(r) == CHOOSE e \in {r.chunk[k][2] : k \in 1..Len(r.chunk)} :
                 \A k \in 1..Len(r.chunk) : r.chunk[k][2] <= e

PosIn(s, x) == CHOOSE p \in 1..Len(s) : s[p] = x

\* C4: the returned list is ordered non-increasing by peak elevation, holds
\* exactly the passes found, passes of equal peak keep the order they had
\* before the sort, and ranking the returned list again leaves it as it is.
C4_Ranked ==
    Returned =>
        LET before == collect(visible, 1)
        IN  /\ \A i, j \in 1..Len(rows) : i < j => PeakOf(rows[i]) >= PeakOf(rows[j])
            /\ Len(rows) = Len(before)
            /\ Range(rows) = Range(before)
            /\ \A i, j \in 1..Len(rows) :
                  (i < j /\ PeakOf(rows[i]) = PeakOf(rows[j])) =>
                      PosIn(before, rows[i]) < PosIn(before, rows[j])
            /\ sort_rows(rows) = rows

\* three passes or more, two of equal peak from different satellites, and a
\* sort that moved something
C4_Witness ==
    /\ Returned
    /\ Len(rows) >= 3
    /\ rows # collect(visible, 1)
    /\ \E i, j \in 1..Len(rows) :
          /\ i < j
          /\ rows[i].sat # rows[j].sat
          /\ PeakOf(rows[i]) = PeakOf(rows[j])
    /\ PeakOf(rows[1]) > PeakOf(rows[Len(rows)])

\* C5: with start > end the run ends in a usage error before the catalog is
\* loaded and before any instant is sampled, never in the no-results outcome
\* (at "visible_list" the call is made and nothing is loaded yet).
C5_MalformedWindowRejected ==
    (start > end /\ pc # "visible_list") =>
        /\ sats = <<>>
        /\ sky = <<>>
        /\ pc = "usage_error"

\* C6: a propagation failure (NaN) of one satellite at one instant removes
\* that sample only: the run returns, no pass holds the failed instant, and
\* every evaluation that succeeded at or above the threshold is in exactly
\* one pass of its satellite, with its elevation.
C6_FailureLocal ==
    Returned =>
        \A n \in 1..Len(sky), k \in 1..Len(sats) :
            LET e == sky[n]
                holding == {i \in RowsOf(k) : e.dt \in Times(rows[i].chunk)}
            IN  IF e.alt[k].nan
                THEN holding = {}
                ELSE e.alt[k].deg >= min_el =>
                        /\ Cardinality(holding) = 1
                        /\ \A i \in holding : \E j \in 1..Len(rows[i].chunk) :
                              /\ rows[i].chunk[j][1] = e.dt
                              /\ rows[i].chunk[j][2] = e.alt[k].deg

\* a satellite failed at one instant and was seen at another, while another
\* satellite was seen at the instant of the failure
C6_Witness ==
    /\ Returned
    /\ \E n, m \in 1..Len(sky), k, l \in 1..Len(sats) :
          /\ n # m
          /\ k # l
          /\ sky[n].alt[k].nan
          /\ sky[m].dt \in UNION {Times(rows[i].chunk) : i \in RowsOf(k)}
          /\ sky[n].dt \in UNION {Times(rows[i].chunk) : i \in RowsOf(l)}

Marked(ln, d) == Len(ln) >= 2 /\ ln[1] = d /\ ln[2] = " "

Qualifies(L, i) == i + 2 <= Len(L) /\ Marked(L[i + 1], "1") /\ Marked(L[i + 2], "2")

\* S holds the indices at which the scan emits: the qualifying indices not
\* covered by a record emitted one or two lines before
IsScan(L, S) ==
    \A i \in 1..Len(L) :
        i \in S <=> (Qualifies(L, i) /\ (i - 1) \notin S /\ (i - 2) \notin S)

Nth(S, p) == CHOOSE i \in S : Cardinality({j \in S : j < i}) = p - 1

\* C7: over the stripped non-blank lines, load_tles returns, in input order,
\* the records of the scan from the first line that takes three lines where
\* the second starts with "1 " and the third with "2 " and otherwise moves on
\* by one line: every record has its "1 " and "2 " lines, no line is used by
\* two records, and no qualifying triple means an empty list.
C7_TleScan ==
    pc \in {"frange", "no_results"} =>
        LET L == read_lines(tle_file)
        IN  /\ \A n \in 1..Len(L) : L[n] # <<>> /\ L[n][1] # " " /\ L[n][Len(L[n])] # " "
            /\ \E S \in SUBSET {i \in 1..Len(L) : Qualifies(L, i)} :
                  /\ IsScan(L, S)
                  /\ \A i, j \in S : i < j => i + 3 <= j
                  /\ Len(sats) = Cardinality(S)
                  /\ \A p \in 1..Len(sats) :
                        sats[p] = [name |-> L[Nth(S, p)], line1 |-> L[Nth(S, p) + 1],
                                   line2 |-> L[Nth(S, p) + 2]]
            /\ \A p \in 1..Len(sats) :
                  Marked(sats[p].line1, "1") /\ Marked(sats[p].line2, "2")
            /\ (\A i \in 1..Len(L) : ~Qualifies(L, i)) => (sats = <<>> /\ pc = "no_results")

\* two records and a stray line, out of seven lines that all survive the
\* stripping
C7_Witness ==
    /\ pc = "frange"
    /\ Len(sats) = 2
    /\ Len(read_lines(tle_file)) = 7
    /\ \E n \in 1..Len(tle_file) : strip(tle_file[n]) # tle_file[n]

\* C8: for start <= end and a positive step the instants evaluated are
\* start, start + step, ... up to the last one that is <= end, and the
\* samples retained for a satellite are those instants at which its
\* elevation is >= min_el, in strictly increasing time order.
C8_SamplingGrid ==
    (Returned /\ start <= end /\ step_s > 0) =>
        /\ Len(sky) >= 1
        /\ \A n \in 1..Len(sky) : sky[n].dt = start + (n - 1) * step_s
        /\ sky[Len(sky)].dt <= end
        /\ sky[Len(sky)].dt + step_s > end
        /\ \A k \in 1..Len(sats) :
              LET kept == SelectSeq(sky, LAMBDA e : ~e.alt[k].nan /\ e.alt[k].deg >= min_el)
                  smp == SamplesOf(k)
              IN  /\ Len(smp) = Len(kept)
                  /\ \A j \in 1..Len(smp) :
                        /\ smp[j][1] = kept[j].dt
                        /\ smp[j][2] = kept[j].alt[k].deg
                  /\ \A j \in 1..(Len(smp) - 1) : smp[j][1] < smp[j + 1][1]

\* end is on the grid and was sampled; one satellite was seen exactly at the
\* threshold and missed just below it
C8_Witness ==
    /\ Returned
    /\ start < end
    /\ step_s > 0
    /\ sky[Len(sky)].dt = end
    /\ \E k \in 1..Len(sats), n, m \in 1..Len(sky) :
          /\ sky[n].alt[k] = Deg(min_el)
          /\ sky[n].dt \in Times(SamplesOf(k))
          /\ ~sky[m].alt[k].nan
          /\ sky[m].alt[k].deg < min_el

\* C9: every pass of the output is reported with the maximum elevation of
\* its samples as its peak, with the time and azimuth of a sample attaining
\* it, and with the times of its first and last samples.
C9_ReportedPeak ==
    /\ \A i \in 1..Len(out) :
          LET c == rows[i].chunk
          IN  /\ out[i].max_el = PeakOf(rows[i])
              /\ \E j \in 1..Len(c) :
                    /\ c[j][2] = out[i].max_el
                    /\ out[i].t_peak = Some(c[j][1])
                    /\ out[i].az_at_peak = Some(c[j][3])
              /\ out[i].t0 = FirstTime(c)
              /\ out[i].t1 = LastTime(c)
    /\ pc \in {"done", "TypeError"} => Len(out) = Len(rows)

\* C10: the sampling loop only ever runs with a positive step.
C10_StepPositive ==
    pc = "frange" => step_s > 0

\* the satellite is seen at every instant of minutes 0-2 and 5-7 and at none
\* in between
SeenTwice ==
    /\ Returned
    /\ step_s = 30 /\ start = 0 /\ end = 420
    /\ \A n \in 1..Len(sky) :
          (sky[n].dt <= 120 \/ sky[n].dt >= 300) <=> GE(sky[n].alt[1], min_el)

\* the same, but the sample at minute 2 is already below the threshold
SeenTwiceApart ==
    /\ Returned
    /\ step_s = 30 /\ start = 0 /\ end = 420
    /\ \A n \in 1..Len(sky) :
          (sky[n].dt < 120 \/ sky[n].dt >= 300) <=> GE(sky[n].alt[1], min_el)

\* C3 as stated: seen during minutes 0-2 and 5-7, the satellite has two passes.
C3_TwoPasses ==
    SeenTwice => Len(rows) = 2

\* C3 amended: seen during minutes 0-2 and 5-7 the satellite has one pass,
\* from minute 0 to minute 7, since the samples at minutes 2 and 5 are exactly
\* 180 seconds apart; it has two passes when the sample at minute 2 is
\* missing, the gap then being 210 seconds.
C3_OnePass ==
    /\ SeenTwice =>
          /\ Len(rows) = 1
          /\ FirstTime(rows[1].chunk) = 0
          /\ LastTime(rows[1].chunk) = 420
          /\ Len(rows[1].chunk) = 10
    /\ SeenTwiceApart =>
          /\ Len(rows) = 2
          /\ {<<FirstTime(rows[i].chunk), LastTime(rows[i].chunk)>> : i \in 1..2}
                = {<<0, 90>>, <<300, 420>>}

C3_Witness == SeenTwice /\ pc = "done"

====
